---- MODULE Spec2Model ----
(***************************************************************************)
(* Model of the Oura Recovery Coach backend (apps/api): the provider       *)
(* client (services/oura_client.py), the recovery coach                    *)
(* (services/ai_coach.py) and the four data endpoints of main.py.          *)
(*                                                                         *)
(* Conventions                                                             *)
(*  - Python None, in a numeric field, is the number None below.           *)
(*  - A call either returns or raises: Return(v) / Raise(e).               *)
(*  - Floats are scaled integers: a confidence is kept in thousandths      *)
(*    (0.8 is 800), a temperature deviation in tenths of a degree, hours   *)
(*    with one decimal in tenths of an hour.                               *)
(*  - A text is a non-empty sequence of lines (what split('\n') yields), a *)
(*    line a sequence of tokens. Free text is written one character per    *)
(*    token; a marker, a number or a recommendation type is one token.     *)
(***************************************************************************)
EXTENDS Integers, Sequences, FiniteSets, TLC

VARIABLES
    environ,            \* os.environ: which credentials are set
    _oura_client,       \* oura_client.py: the module's singleton
    _recovery_coach,    \* ai_coach.py: the module's singleton
    constructions,      \* by getter: the instances constructed, the last call's outcome
    request,            \* the request being handled: its endpoint and date_str
    pc,                 \* where its handler stands
    fetch,              \* the three OuraClient coroutines of the request
    ready,              \* the event loop's queue of coroutines ready to run
    gather_future,      \* what asyncio.gather holds for the handler
    llm,                \* the generative service: the calls of this request
    response,           \* the HTTP response of the request
    input,              \* SpecCoach: the arguments handed to the coach's functions
    output              \* SpecCoach: the function applied and what it gave

apiVars == <<environ, _oura_client, _recovery_coach, constructions, request, pc,
             fetch, ready, gather_future, llm, response>>

coachVars == <<input, output>>

vars == <<apiVars, coachVars>>

\* Python None in a numeric slot: a value no number of the model equals.
None == -9999

\* What a call that returned has raised.
Nothing == "nothing"

Return(v) == [raised |-> Nothing, value |-> v]

Raise(e) == [raised |-> e]

\* raise e(msg)
RaiseMsg(e, msg) == [raised |-> e, msg |-> msg]

(***************************************************************************)
(* models.py: the pydantic models. A required int field given None fails   *)
(* validation; an Optional field may be None.                              *)
(***************************************************************************)
MaxScore == 100

SleepData(date, total_sleep_duration, deep_sleep_duration, rem_sleep_duration, light_sleep_duration, sleep_score, restfulness, sleep_efficiency) ==
    IF None \in {total_sleep_duration, deep_sleep_duration, rem_sleep_duration,
                 light_sleep_duration, sleep_score}
    THEN Raise("ValidationError")
    ELSE Return([date                 |-> date,
                 total_sleep_duration |-> total_sleep_duration,
                 deep_sleep_duration  |-> deep_sleep_duration,
                 rem_sleep_duration   |-> rem_sleep_duration,
                 light_sleep_duration |-> light_sleep_duration,
                 sleep_score          |-> sleep_score,
                 restfulness          |-> restfulness,
                 sleep_efficiency     |-> sleep_efficiency])

ReadinessData(date, readiness_score, temperature_deviation, resting_heart_rate, hrv_balance, recovery_index, previous_night_score, sleep_balance, activity_balance) ==
    IF readiness_score = None
    THEN Raise("ValidationError")
    ELSE Return([date                  |-> date,
                 readiness_score       |-> readiness_score,
                 temperature_deviation |-> temperature_deviation,
                 resting_heart_rate    |-> resting_heart_rate,
                 hrv_balance           |-> hrv_balance,
                 recovery_index        |-> recovery_index,
                 previous_night_score  |-> previous_night_score,
                 sleep_balance         |-> sleep_balance,
                 activity_balance      |-> activity_balance])

ActivityData(date, activity_score, steps, total_calories, active_calories, target_calories, training_frequency, training_volume, recovery_time) ==
    IF None \in {activity_score, steps, total_calories, active_calories, target_calories}
    THEN Raise("ValidationError")
    ELSE Return([date               |-> date,
                 activity_score     |-> activity_score,
                 steps              |-> steps,
                 total_calories     |-> total_calories,
                 active_calories    |-> active_calories,
                 target_calories    |-> target_calories,
                 training_frequency |-> training_frequency,
                 training_volume    |-> training_volume,
                 recovery_time      |-> recovery_time])

(***************************************************************************)
(* ai_coach.py: RecoveryCoach._determine_recommendation_type               *)
(***************************************************************************)
determine_recommendation_type_gt(readiness_data) ==
    LET score == readiness_data.readiness_score IN
    IF score > 85 THEN "peak_performance"
    ELSE IF score > 70 THEN "training_ready"
    ELSE IF score > 55 THEN "moderate_activity"
    ELSE IF score > 40 THEN "light_recovery"
    ELSE "rest_day"

determine_recommendation_type(readiness_data) ==
    LET score == readiness_data.readiness_score IN
    IF score >= 85 THEN "peak_performance"
    ELSE IF score >= 70 THEN "training_ready"
    ELSE IF score >= 55 THEN "moderate_activity"
    ELSE IF score >= 40 THEN "light_recovery"
    ELSE "rest_day"

(***************************************************************************)
(* ai_coach.py: RecoveryCoach._generate_key_factors                        *)
(* A factor f"Excellent sleep quality ({score}/100)" is the pair of its    *)
(* fixed text and the value it embeds.                                     *)
(***************************************************************************)
Abs(x) == IF x < 0 THEN -x ELSE x

\* Python truthiness of an Optional number: None and 0 are false.
Truthy(x) == x # None /\ x # 0

Take(s, n) == IF Len(s) <= n THEN s ELSE SubSeq(s, 1, n)

SleepFactor(sleep_data) ==
    IF sleep_data.sleep_score >= 85
    THEN << <<"Excellent sleep quality", sleep_data.sleep_score>> >>
    ELSE IF sleep_data.sleep_score < 70
    THEN << <<"Poor sleep quality", sleep_data.sleep_score>> >>
    ELSE <<>>

ReadinessFactor(readiness_data) ==
    IF readiness_data.readiness_score >= 85
    THEN << <<"High readiness score", readiness_data.readiness_score>> >>
    ELSE IF readiness_data.readiness_score < 70
    THEN << <<"Low readiness score", readiness_data.readiness_score>> >>
    ELSE <<>>

TemperatureFactor(readiness_data) ==
    IF Truthy(readiness_data.temperature_deviation)
       /\ Abs(readiness_data.temperature_deviation) > 5
    THEN << <<"Elevated temperature deviation", readiness_data.temperature_deviation>> >>
    ELSE <<>>

HrvFactor(readiness_data) ==
    IF Truthy(readiness_data.hrv_balance) /\ readiness_data.hrv_balance < 60
    THEN << <<"Low HRV balance", readiness_data.hrv_balance>> >>
    ELSE <<>>

ActivityFactor(activity_data) ==
    IF activity_data.steps < 5000
    THEN << <<"Low activity yesterday", activity_data.steps>> >>
    ELSE <<>>

generate_key_factors_reordered(sleep_data, readiness_data, activity_data) ==
    Take(ReadinessFactor(readiness_data) \o SleepFactor(sleep_data)
         \o TemperatureFactor(readiness_data) \o HrvFactor(readiness_data)
         \o ActivityFactor(activity_data), 5)

generate_key_factors(sleep_data, readiness_data, activity_data) ==
    Take(SleepFactor(sleep_data) \o ReadinessFactor(readiness_data)
         \o TemperatureFactor(readiness_data) \o HrvFactor(readiness_data)
         \o ActivityFactor(activity_data), 5)

(***************************************************************************)
(* ai_coach.py: RecoveryCoach._build_analysis_prompt                       *)
(* The prompt is the record of the values its f-string renders; the fixed  *)
(* text around them is the same in every prompt.                           *)
(***************************************************************************)
\* n/d rounded to the nearest integer, ties to even (format spec .1f / .0f).
RoundDiv(n, d) ==
    LET q == n \div d
        r == n % d
    IN  IF 2 * r < d THEN q
        ELSE IF 2 * r > d THEN q + 1
        ELSE IF q % 2 = 0 THEN q ELSE q + 1

\* f"{seconds / 3600:.1f}", in tenths of an hour.
Hours1f(seconds) == RoundDiv(seconds, 360)

\* f"{(stage_hrs / total_sleep_hrs * 100):.0f}": a float division, which raises
\* ZeroDivisionError when total_sleep_hrs is 0.0.
StagePercent(stage, total) ==
    IF total = 0 THEN Raise("ZeroDivisionError")
    ELSE Return(RoundDiv(stage * 100, total))

build_analysis_prompt(sleep_data, readiness_data, activity_data) ==
    LET total == sleep_data.total_sleep_duration
        deep  == StagePercent(sleep_data.deep_sleep_duration, total)
        rem   == StagePercent(sleep_data.rem_sleep_duration, total)
        light == StagePercent(sleep_data.light_sleep_duration, total)
    IN  IF deep.raised # Nothing THEN deep
        ELSE IF rem.raised # Nothing THEN rem
        ELSE IF light.raised # Nothing THEN light
        ELSE Return([
            date                  |-> sleep_data.date,
            sleep_score           |-> sleep_data.sleep_score,
            total_sleep_hrs       |-> Hours1f(total),
            deep_sleep_hrs        |-> Hours1f(sleep_data.deep_sleep_duration),
            deep_pct              |-> deep.value,
            rem_sleep_hrs         |-> Hours1f(sleep_data.rem_sleep_duration),
            rem_pct               |-> rem.value,
            light_sleep_hrs       |-> Hours1f(sleep_data.light_sleep_duration),
            light_pct             |-> light.value,
            sleep_efficiency      |-> sleep_data.sleep_efficiency,
            restfulness           |-> sleep_data.restfulness,
            readiness_score       |-> readiness_data.readiness_score,
            resting_heart_rate    |-> readiness_data.resting_heart_rate,
            hrv_balance           |-> readiness_data.hrv_balance,
            temperature_deviation |-> readiness_data.temperature_deviation,
            recovery_index        |-> readiness_data.recovery_index,
            sleep_balance         |-> readiness_data.sleep_balance,
            activity_balance      |-> readiness_data.activity_balance,
            activity_score        |-> activity_data.activity_score,
            steps                 |-> activity_data.steps,
            total_calories        |-> activity_data.total_calories,
            active_calories       |-> activity_data.active_calories,
            training_volume       |-> activity_data.training_volume])

(***************************************************************************)
(* Python string operations, on lines of tokens                            *)
(***************************************************************************)
RECURSIVE LStrip(_, _)
\* str.lstrip(chars)
LStrip(s, chars) ==
    IF s # <<>> /\ Head(s) \in chars THEN LStrip(Tail(s), chars) ELSE s

RECURSIVE RStrip(_, _)
\* str.rstrip(chars)
RStrip(s, chars) ==
    IF s # <<>> /\ s[Len(s)] \in chars
    THEN RStrip(SubSeq(s, 1, Len(s) - 1), chars) ELSE s

\* str.strip(chars)
StripChars(s, chars) == RStrip(LStrip(s, chars), chars)

Whitespace == {" ", "\n"}

\* str.strip()
Strip(s) == StripChars(s, Whitespace)

\* str.startswith('-')
StartsWithDash(s) == s # <<>> /\ Head(s) = "-"

Markers ==
    {"RECOMMENDATION_TYPE:", "KEY_FACTORS:", "MESSAGE:", "SPECIFIC_TIPS:", "CONFIDENCE:"}

\* marker in line
Contains(line, marker) == \E i \in 1..Len(line) : line[i] = marker

\* marker in response_text
TextContains(text, marker) == \E l \in 1..Len(text) : Contains(text[l], marker)

\* The tokens that hold a ':' character: the colon itself and every marker.
HasColon(tok) == tok = ":" \/ tok \in Markers

\* line.split(":", 1)[1]: what follows the first colon of the line.
AfterFirstColon(line) ==
    LET i == CHOOSE k \in 1..Len(line) :
                 HasColon(line[k]) /\ \A j \in 1..(k - 1) : ~HasColon(line[j])
    IN  SubSeq(line, i + 1, Len(line))

\* [line for line in response_text.split('\n') if marker in line][0]
FirstLineWith(text, marker) ==
    LET hits == {l \in 1..Len(text) : Contains(text[l], marker)} IN
    IF hits = {} THEN Raise("IndexError")
    ELSE Return(text[CHOOSE l \in hits : \A m \in hits : l <= m])

RECURSIVE JoinLines(_)
\* "\n".join(lines): the text as one string
JoinLines(lines) ==
    IF lines = <<>> THEN <<>>
    ELSE IF Len(lines) = 1 THEN lines[1]
    ELSE lines[1] \o <<"\n">> \o JoinLines(Tail(lines))

\* str.find(marker, start): 0-based offset of the first occurrence at or after
\* start, -1 when there is none. A marker is one token, so len(marker) is 1.
Find(s, marker, start) ==
    LET hits == {i \in start..(Len(s) - 1) : s[i + 1] = marker} IN
    IF hits = {} THEN -1 ELSE CHOOSE i \in hits : \A j \in hits : i <= j

\* s[start:end] with Python's meaning of a negative end
Slice(s, start, end) ==
    LET e0 == IF end < 0 THEN end + Len(s) ELSE end
        e  == IF e0 < 0 THEN 0 ELSE IF e0 > Len(s) THEN Len(s) ELSE e0
    IN  IF start >= e THEN <<>> ELSE SubSeq(s, start + 1, e)

\* The numeric literals a reply may carry after CONFIDENCE:, in thousandths.
FloatLiterals ==
    [lit \in {"0.85", "0.9", "1.0", "85", "-0.3"} |->
        CASE lit = "0.85" -> 850
          [] lit = "0.9"  -> 900
          [] lit = "1.0"  -> 1000
          [] lit = "85"   -> 85000
          [] lit = "-0.3" -> -300]

\* float(conf_str)
ParseFloat(s) ==
    IF Len(s) = 1 /\ s[1] \in DOMAIN FloatLiterals
    THEN Return(FloatLiterals[s[1]])
    ELSE Raise("ValueError")

(***************************************************************************)
(* models.py: RecoveryRecommendation. Every field is typed, none is        *)
(* range-checked.                                                          *)
(***************************************************************************)
RecoveryRecommendation(date, recommendation_type, message, confidence, key_factors) ==
    [date                |-> date,
     recommendation_type |-> recommendation_type,
     message             |-> message,
     confidence          |-> confidence,
     key_factors         |-> key_factors]

(***************************************************************************)
(* ai_coach.py: RecoveryCoach._parse_ai_response                           *)
(***************************************************************************)
DefaultRecType == "moderate_activity"

\* lines 200-203
ExtractRecType(response_text) ==
    IF TextContains(response_text, "RECOMMENDATION_TYPE:")
    THEN LET type_line == FirstLineWith(response_text, "RECOMMENDATION_TYPE:") IN
         IF type_line.raised # Nothing THEN type_line
         ELSE Return(Strip(AfterFirstColon(type_line.value)))
    ELSE Return(<<DefaultRecType>>)

RECURSIVE FactorLoop(_, _, _, _)
\* lines 209-216: the loop over the lines, from line i on
FactorLoop(lines, i, in_factors, key_factors) ==
    IF i > Len(lines) THEN key_factors
    ELSE LET line == lines[i] IN
         IF Contains(line, "KEY_FACTORS:")
         THEN FactorLoop(lines, i + 1, TRUE, key_factors)
         ELSE IF in_factors /\ StartsWithDash(Strip(line))
         THEN FactorLoop(lines, i + 1, in_factors,
                         Append(key_factors, Strip(StripChars(line, {"-", " "}))))
         ELSE IF in_factors /\ Strip(line) # <<>> /\ ~StartsWithDash(Strip(line))
         THEN key_factors
         ELSE FactorLoop(lines, i + 1, in_factors, key_factors)

\* lines 206-216
ExtractKeyFactors(response_text) ==
    IF TextContains(response_text, "KEY_FACTORS:")
    THEN FactorLoop(response_text, 1, FALSE, <<>>)
    ELSE <<>>

\* lines 219-225
ExtractMessage(response_text) ==
    IF TextContains(response_text, "MESSAGE:")
    THEN LET s             == JoinLines(response_text)
             message_start == Find(s, "MESSAGE:", 0) + 1
             tips_at       == Find(s, "SPECIFIC_TIPS:", message_start)
             message_end   == IF tips_at = -1
                              THEN Find(s, "CONFIDENCE:", message_start)
                              ELSE tips_at
         IN  Strip(Slice(s, message_start, message_end))
    ELSE <<>>

RECURSIVE TipsLoop(_, _, _, _)
\* lines 231-238: the loop over the lines, from line i on
TipsLoop(lines, i, in_tips, specific_tips) ==
    IF i > Len(lines) THEN specific_tips
    ELSE LET line == lines[i] IN
         IF Contains(line, "SPECIFIC_TIPS:")
         THEN TipsLoop(lines, i + 1, TRUE, specific_tips)
         ELSE IF in_tips /\ StartsWithDash(Strip(line))
         THEN TipsLoop(lines, i + 1, in_tips,
                       Append(specific_tips, Strip(StripChars(line, {"-", " "}))))
         ELSE IF in_tips /\ Contains(line, "CONFIDENCE:")
         THEN specific_tips
         ELSE TipsLoop(lines, i + 1, in_tips, specific_tips)

\* lines 228-238
ExtractTips(response_text) ==
    IF TextContains(response_text, "SPECIFIC_TIPS:")
    THEN TipsLoop(response_text, 1, FALSE, <<>>)
    ELSE <<>>

RECURSIVE BulletLines(_)
\* "\n".join(f"(bullet) {tip}" for tip in specific_tips), (bullet) the U+2022 sign
BulletLines(tips) ==
    IF tips = <<>> THEN <<>>
    ELSE <<"(bullet) ">> \o Head(tips)
         \o (IF Len(tips) > 1 THEN <<"\n">> ELSE <<>>) \o BulletLines(Tail(tips))

CombineMessage_no_tips(message, specific_tips) == message

\* lines 241-243
CombineMessage(message, specific_tips) ==
    IF specific_tips # <<>>
    THEN message \o <<"\n", "\n", "Specific Tips:", "\n">> \o BulletLines(specific_tips)
    ELSE message

DefaultConfidence_low == 800 - 100

DefaultConfidence == 800

\* lines 246-253
ExtractConfidence(response_text) ==
    IF TextContains(response_text, "CONFIDENCE:")
    THEN LET conf_line == FirstLineWith(response_text, "CONFIDENCE:") IN
         IF conf_line.raised # Nothing THEN conf_line
         ELSE LET parsed == ParseFloat(Strip(AfterFirstColon(conf_line.value))) IN
              IF parsed.raised = "ValueError" THEN Return(DefaultConfidence)
              ELSE parsed
    ELSE Return(DefaultConfidence)

ParseTry_no_synthesis(response_text, target_date, sleep_data, readiness_data, activity_data) ==
    LET rec_type    == ExtractRecType(response_text)
        extracted   == ExtractKeyFactors(response_text)
        message     == ExtractMessage(response_text)
        tips        == ExtractTips(response_text)
        confidence  == ExtractConfidence(response_text)
    IN  IF rec_type.raised # Nothing THEN rec_type
        ELSE IF confidence.raised # Nothing THEN confidence
        ELSE Return(RecoveryRecommendation(target_date, rec_type.value,
                        CombineMessage(message, tips), confidence.value, extracted))

\* lines 198-265: the body of the try block
ParseTry(response_text, target_date, sleep_data, readiness_data, activity_data) ==
    LET rec_type    == ExtractRecType(response_text)
        extracted   == ExtractKeyFactors(response_text)
        message     == ExtractMessage(response_text)
        tips        == ExtractTips(response_text)
        confidence  == ExtractConfidence(response_text)
        key_factors == IF extracted = <<>>
                       THEN generate_key_factors(sleep_data, readiness_data, activity_data)
                       ELSE extracted
    IN  IF rec_type.raised # Nothing THEN rec_type
        ELSE IF confidence.raised # Nothing THEN confidence
        ELSE Return(RecoveryRecommendation(target_date, rec_type.value,
                        CombineMessage(message, tips), confidence.value, key_factors))

FallbackConfidence == 700

\* lines 267-275: the except branch
ParseFallback(response_text, target_date, sleep_data, readiness_data, activity_data) ==
    RecoveryRecommendation(target_date,
        <<determine_recommendation_type(readiness_data)>>,
        Slice(JoinLines(response_text), 0, 500),
        FallbackConfidence,
        generate_key_factors(sleep_data, readiness_data, activity_data))

parse_ai_response(response_text, target_date, sleep_data, readiness_data, activity_data) ==
    LET body == ParseTry(response_text, target_date, sleep_data, readiness_data,
                         activity_data)
    IN  IF body.raised = Nothing THEN body.value
        ELSE ParseFallback(response_text, target_date, sleep_data, readiness_data,
                           activity_data)

(***************************************************************************)
(* The replies of the generative service. The prompt (ai_coach.py lines    *)
(* 154-170) asks for five labelled sections in a fixed layout; a reply is  *)
(* what the service meant to say (an intent: each section present or not)  *)
(* written out in one of three layouts.                                    *)
(***************************************************************************)
MaxBullets == 2

Today == "2024-01-15"

RECURSIVE SeqsUpTo(_, _)
\* The sequences over S of length at most n
SeqsUpTo(S, n) ==
    IF n = 0 THEN {<<>>}
    ELSE LET shorter == SeqsUpTo(S, n - 1) IN
         shorter \cup {Append(q, x) : q \in shorter, x \in S}

FactorTexts == {<<"a">>, <<"l", "o", "w", " ", "h", "r", "v">>, <<"-", "2", "c">>}

TipTexts == {<<"n", "a", "p">>, <<"w", "a", "l", "k">>}

MessageTexts == {<< <<"r", "e", "s", "t">>, <<"n", "o", "w">> >>}

ConfidenceTexts == {"0.85", "85", "-0.3", "high"}

\* The layouts that keep to the prompt's template: as asked, without blank lines,
\* and with a greeting, indented bullets and a closing line.
PlainLayouts == {"template", "compact", "chatty"}

\* "rambling": the template with an aside after the first bullet of a section.
Layouts == PlainLayouts \cup {"rambling"}

Aside == <<"n", "b">>

\* One bullet more than the factor synthesis ever returns.
ManyFactors == [k \in 1..6 |-> <<"a">>]

SectionNames == {"type", "factors", "message", "tips", "confidence"}

\* A section that is absent has no content to choose.
Intents ==
    UNION {
        [sections   : {secs},
         rec_type   : {"rest_day"},
         factors    : IF "factors" \in secs
                      THEN SeqsUpTo(FactorTexts, MaxBullets) \cup {ManyFactors}
                      ELSE {<<>>},
         message    : MessageTexts,
         tips       : IF "tips" \in secs THEN SeqsUpTo(TipTexts, MaxBullets)
                      ELSE {<<>>},
         confidence : IF "confidence" \in secs THEN ConfidenceTexts ELSE {"0.85"},
         layout     : Layouts] : secs \in SUBSET SectionNames}

BulletLine(layout, text) ==
    (IF layout = "chatty" THEN <<" ", " ">> ELSE <<>>) \o <<"-", " ">> \o text

TypeSection(i) ==
    IF "type" \notin i.sections THEN <<>>
    ELSE << <<"RECOMMENDATION_TYPE:", " ", i.rec_type>>
            \o (IF i.layout = "chatty" THEN <<" ">> ELSE <<>>) >>

\* The bullets of a section, one line each.
Bullets(layout, texts) ==
    LET lines == [k \in 1..Len(texts) |-> BulletLine(layout, texts[k])] IN
    IF layout = "rambling" /\ texts # <<>>
    THEN <<Head(lines), Aside>> \o Tail(lines)
    ELSE lines

FactorSection(i) ==
    IF "factors" \notin i.sections THEN <<>>
    ELSE << <<"KEY_FACTORS:">> >>
         \o Bullets(i.layout, i.factors)

MessageSection(i) ==
    IF "message" \notin i.sections THEN <<>>
    ELSE IF i.layout = "compact"
    THEN << <<"MESSAGE:", " ">> \o Head(i.message) >> \o Tail(i.message)
    ELSE << <<"MESSAGE:">> >> \o i.message

TipsSection(i) ==
    IF "tips" \notin i.sections THEN <<>>
    ELSE << <<"SPECIFIC_TIPS:">> >>
         \o Bullets(i.layout, i.tips)

ConfidenceSection(i) ==
    IF "confidence" \notin i.sections THEN <<>>
    ELSE << <<"CONFIDENCE:", " ", i.confidence>> >>

RECURSIVE JoinSections(_, _)
\* The sections that are present, a blank line between two of them unless compact
JoinSections(sections, layout) ==
    IF sections = <<>> THEN <<>>
    ELSE LET rest == JoinSections(Tail(sections), layout) IN
         IF Head(sections) = <<>> THEN rest
         ELSE IF rest = <<>> \/ layout = "compact" THEN Head(sections) \o rest
         ELSE Head(sections) \o << <<>> >> \o rest

Render(i) ==
    LET body == JoinSections(<<TypeSection(i), FactorSection(i), MessageSection(i),
                               TipsSection(i), ConfidenceSection(i)>>, i.layout)
        text == IF i.layout = "chatty"
                THEN << <<"o", "k">> >> \o body \o << <<"b", "y", "e">> >>
                ELSE body
    IN  IF text = <<>> THEN << <<>> >> ELSE text

(***************************************************************************)
(* oura_client.py: OuraClient                                              *)
(* A provider reply is what one HTTP GET came to: a 2xx answer with its    *)
(* "data" list, an error status, or a network error. A provider record     *)
(* holds every key the client reads, None when the payload lacks the key.  *)
(***************************************************************************)
\* Python None in a slot that holds an object
Unset == "None"

Kinds == {"sleep", "readiness", "activity"}

\* lines 37-48
OuraClient_init(env) ==
    IF ~env.OURA_ACCESS_TOKEN
    THEN RaiseMsg("ValueError", "Oura access token is required")
    ELSE Return("OuraClient")

get_oura_client_fresh(singleton, env) ==
    LET made == OuraClient_init(env) IN
    IF made.raised # Nothing
    THEN [result |-> made, singleton |-> singleton, constructed |-> FALSE]
    ELSE [result |-> made, singleton |-> made.value, constructed |-> TRUE]

\* lines 223-233: what the call gives, what it leaves in _oura_client, and whether
\* it ran OuraClient() to its end
get_oura_client(singleton, env) ==
    IF singleton = Unset
    THEN LET made == OuraClient_init(env) IN
         IF made.raised # Nothing
         THEN [result |-> made, singleton |-> singleton, constructed |-> FALSE]
         ELSE [result |-> made, singleton |-> made.value, constructed |-> TRUE]
    ELSE [result |-> Return(singleton), singleton |-> singleton, constructed |-> FALSE]

\* lines 64-86
make_request(reply) ==
    IF reply.kind = "ok" THEN Return([data |-> reply.data])
    ELSE IF reply.kind = "status"
    THEN IF reply.status = 401
         THEN RaiseMsg("OuraAPIError", "Invalid or expired Oura access token")
         ELSE IF reply.status = 429
         THEN RaiseMsg("OuraAPIError", "Rate limit exceeded. Try again later.")
         ELSE RaiseMsg("OuraAPIError", "Oura API error: status - text")
    ELSE RaiseMsg("OuraAPIError", "Network error connecting to Oura API")

\* The coroutine stands at an await of _make_request(endpoint, params).
Await(endpoint) == [raised |-> "await", endpoint |-> endpoint]

\* record.get(key, default)
Get(record, key, default) == IF record[key] = None THEN default ELSE record[key]

\* data[0]
Index0(data) == IF data = <<>> THEN Raise("IndexError") ELSE Return(data[1])

NoData_never(json) == FALSE

\* not response.get("data")
NoData(json) == json.data = <<>>

\* lines 89-121, run as far as the provider's replies so far allow
OuraClient_get_sleep_data(target_date, replies) ==
    IF Len(replies) = 0 THEN Await("sleep")
    ELSE LET detailed_response == make_request(replies[1]) IN
    IF detailed_response.raised # Nothing THEN detailed_response
    ELSE IF Len(replies) = 1 THEN Await("daily_sleep")
    ELSE LET daily_response == make_request(replies[2]) IN
    IF daily_response.raised # Nothing THEN daily_response
    ELSE IF NoData(detailed_response.value) \/ NoData(daily_response.value)
    THEN RaiseMsg("OuraAPIError", "No data available")
    ELSE LET detailed_record == Index0(detailed_response.value.data)
             daily_record    == Index0(daily_response.value.data)
         IN  IF detailed_record.raised # Nothing THEN detailed_record
             ELSE IF daily_record.raised # Nothing THEN daily_record
             ELSE SleepData(target_date,
                      Get(detailed_record.value, "total_sleep_duration", 0),
                      Get(detailed_record.value, "deep_sleep_duration", 0),
                      Get(detailed_record.value, "rem_sleep_duration", 0),
                      Get(detailed_record.value, "light_sleep_duration", 0),
                      daily_record.value.score,
                      detailed_record.value.restless_periods,
                      detailed_record.value.efficiency)

\* lines 122-161
OuraClient_get_readiness_data(target_date, replies) ==
    IF Len(replies) = 0 THEN Await("daily_readiness")
    ELSE LET response_ == make_request(replies[1]) IN
    IF response_.raised # Nothing THEN response_
    ELSE IF NoData(response_.value)
    THEN RaiseMsg("OuraAPIError", "No data available")
    ELSE LET readiness_record == Index0(response_.value.data) IN
         IF readiness_record.raised # Nothing THEN readiness_record
         ELSE LET contributors == readiness_record.value.contributors IN
              ReadinessData(target_date,
                  readiness_record.value.score,
                  contributors.body_temperature,
                  contributors.resting_heart_rate,
                  contributors.hrv_balance,
                  contributors.recovery_index,
                  contributors.previous_night,
                  contributors.sleep_balance,
                  contributors.activity_balance)

\* lines 163-206
OuraClient_get_activity_data(target_date, replies) ==
    IF Len(replies) = 0 THEN Await("daily_activity")
    ELSE LET response_ == make_request(replies[1]) IN
    IF response_.raised # Nothing THEN response_
    ELSE IF NoData(response_.value)
    THEN RaiseMsg("OuraAPIError", "No data available")
    ELSE LET activity_record == Index0(response_.value.data) IN
         IF activity_record.raised # Nothing THEN activity_record
         ELSE LET contributors == activity_record.value.contributors IN
              ActivityData(target_date,
                  activity_record.value.score,
                  Get(activity_record.value, "steps", 0),
                  Get(activity_record.value, "total_calories", 0),
                  Get(activity_record.value, "active_calories", 0),
                  Get(activity_record.value, "target_calories", 0),
                  contributors.training_frequency,
                  contributors.training_volume,
                  activity_record.value.rest_mode_state)

Coroutine(kind, target_date, replies) ==
    CASE kind = "sleep"     -> OuraClient_get_sleep_data(target_date, replies)
      [] kind = "readiness" -> OuraClient_get_readiness_data(target_date, replies)
      [] kind = "activity"  -> OuraClient_get_activity_data(target_date, replies)

(***************************************************************************)
(* ai_coach.py: RecoveryCoach.__init__, get_recovery_coach, analyze_recovery *)
(***************************************************************************)
\* lines 33-40
RecoveryCoach_init(env) ==
    IF ~env.ANTHROPIC_API_KEY
    THEN RaiseMsg("ValueError", "Anthropic API key is required")
    ELSE Return("RecoveryCoach")

\* lines 345-355: what the call gives, what it leaves in _recovery_coach, and
\* whether it ran RecoveryCoach() to its end
get_recovery_coach(singleton, env) ==
    IF singleton = Unset
    THEN LET made == RecoveryCoach_init(env) IN
         IF made.raised # Nothing
         THEN [result |-> made, singleton |-> singleton, constructed |-> FALSE]
         ELSE [result |-> made, singleton |-> made.value, constructed |-> TRUE]
    ELSE [result |-> Return(singleton), singleton |-> singleton, constructed |-> FALSE]

analyze_recovery_swallow(sleep_data, readiness_data, activity_data, completion) ==
    LET prompt == build_analysis_prompt(sleep_data, readiness_data, activity_data) IN
    IF prompt.raised # Nothing THEN prompt
    ELSE Return(parse_ai_response(completion.text, sleep_data.date, sleep_data,
                                  readiness_data, activity_data))

\* lines 60-94. completion is what client.messages.create came to: an
\* anthropic.APIError, a message with no content block, or a message with a text.
analyze_recovery(sleep_data, readiness_data, activity_data, completion) ==
    LET prompt == build_analysis_prompt(sleep_data, readiness_data, activity_data) IN
    IF prompt.raised # Nothing THEN prompt
    ELSE IF completion.kind = "APIError"
    THEN RaiseMsg("AICoachError", "Claude API error")
    ELSE IF completion.kind = "no_content"
    THEN RaiseMsg("AICoachError", "Error generating recommendation")
    ELSE Return(parse_ai_response(completion.text, sleep_data.date, sleep_data,
                                  readiness_data, activity_data))

(***************************************************************************)
(* main.py: the four data endpoints                                        *)
(***************************************************************************)
Endpoints == {"sleep", "readiness", "activity", "recommendations"}

DateStrings == {"2024-01-15", "2024-02-30", "15/01/2024"}

\* date.fromisoformat(date_str)
fromisoformat(date_str) ==
    IF date_str = "2024-01-15" THEN Return(date_str) ELSE Raise("ValueError")

ExceptionStatus_generic_first(endpoint, exc) == 500

\* The except clauses of the second try block: lines 151-154, 174-177, 198-201
\* and 273-290
ExceptionStatus(endpoint, exc) ==
    IF exc = "OuraAPIError"
    THEN (IF endpoint = "readiness" THEN 509 ELSE 503)
    ELSE IF exc = "AICoachError" /\ endpoint = "recommendations" THEN 503
    ELSE 500

\* str(e)
Str(exc) == IF exc.raised \in {"ValueError", "OuraAPIError", "AICoachError"}
            THEN exc.msg ELSE exc.raised

NoResponse == [status |-> 0, fault |-> Nothing, msg |-> "", body |-> <<>>]

HTTPException(status, exc) ==
    [status |-> status, fault |-> exc.raised, msg |-> Str(exc), body |-> <<>>]

Success(body) == [status |-> 200, fault |-> Nothing, msg |-> "", body |-> <<body>>]

gather_first_only == <<"sleep">>

\* lines 242-246: the coroutines asyncio.gather wraps in tasks, in their order
gather == <<"sleep", "readiness", "activity">>

\* asyncio.gather (return_exceptions=False), when the task of kind k is done: the
\* first exception settles the future, as do the three results once all are in.
gather_on_done(future, fetched, k) ==
    IF future.raised # "pending" THEN future
    ELSE IF fetched[k].result.raised # Nothing THEN fetched[k].result
    ELSE IF \A j \in Kinds : fetched[j].st = "done"
    THEN Return([j \in Kinds |-> fetched[j].result.value])
    ELSE future

NoFetch == [st |-> "none", replies |-> <<>>, result |-> Raise("pending")]

StatusReplies ==
    {[kind |-> "status", status |-> c, data |-> <<>>] : c \in {401, 429, 500}}
    \cup {[kind |-> "network", status |-> 0, data |-> <<>>]}

NoContributors ==
    [body_temperature |-> None, resting_heart_rate |-> None, hrv_balance |-> None,
     recovery_index |-> None, previous_night |-> None, sleep_balance |-> None,
     activity_balance |-> None, training_frequency |-> None, training_volume |-> None]

\* The records the provider may hold for the date, by resource.
ProviderRecords(endpoint) ==
    CASE endpoint = "sleep" ->
            {[total_sleep_duration |-> 28800, deep_sleep_duration |-> 5400,
              rem_sleep_duration |-> 7200, light_sleep_duration |-> 16200,
              restless_periods |-> 12, efficiency |-> 90],
             [total_sleep_duration |-> None, deep_sleep_duration |-> None,
              rem_sleep_duration |-> None, light_sleep_duration |-> None,
              restless_periods |-> None, efficiency |-> None]}
      [] endpoint = "daily_sleep" -> {[score |-> 90], [score |-> None]}
      [] endpoint = "daily_readiness" ->
            {[score |-> 45, contributors |-> [NoContributors EXCEPT !.hrv_balance = 45]],
             [score |-> 90, contributors |-> NoContributors]}
      [] endpoint = "daily_activity" ->
            {[score |-> 80, steps |-> 3000, total_calories |-> 2200,
              active_calories |-> 400, target_calories |-> 500,
              rest_mode_state |-> None, contributors |-> NoContributors],
             [score |-> 80, steps |-> None, total_calories |-> None,
              active_calories |-> None, target_calories |-> None,
              rest_mode_state |-> None, contributors |-> NoContributors]}

ProviderReplies(endpoint) ==
    StatusReplies
    \cup {[kind |-> "ok", status |-> 200, data |-> <<>>]}
    \cup {[kind |-> "ok", status |-> 200, data |-> <<rec>>] :
             rec \in ProviderRecords(endpoint)}

AllSections ==
    [sections |-> SectionNames, rec_type |-> "rest_day", factors |-> << <<"a">> >>,
     message |-> << <<"r", "e", "s", "t">>, <<"n", "o", "w">> >>,
     tips |-> << <<"n", "a", "p">> >>, confidence |-> "0.85", layout |-> "template"]

\* What client.messages.create may come to.
Completions ==
    {[kind |-> "APIError", text |-> << <<>> >>],
     [kind |-> "no_content", text |-> << <<>> >>]}
    \cup {[kind |-> "text", text |-> Render(i)] :
             i \in {AllSections,
                    [AllSections EXCEPT !.sections = {}],
                    [AllSections EXCEPT !.sections = SectionNames \ {"factors"}]}}

NotCalled == [called |-> FALSE, kind |-> "none"]

Getters == {"oura", "coach"}

MaxInstances == 2

\* The history of a getter after one more call of it: the instances its class
\* has constructed so far and how the call ended.
Record(history, call) ==
    [made |-> IF call.constructed /\ history.made < MaxInstances
              THEN history.made + 1 ELSE history.made,
     last |-> IF call.result.raised # Nothing THEN "failed"
              ELSE IF call.constructed THEN "made" ELSE "reused"]

InitApi ==
    /\ environ \in [OURA_ACCESS_TOKEN : BOOLEAN, ANTHROPIC_API_KEY : BOOLEAN]
    /\ _oura_client = Unset
    /\ _recovery_coach = Unset
    /\ constructions = [g \in Getters |-> [made |-> 0, last |-> "none"]]
    /\ request = [endpoint |-> "none", date_str |-> "", query_date |-> ""]
    /\ pc = "idle"
    /\ fetch = [k \in Kinds |-> NoFetch]
    /\ ready = <<>>
    /\ gather_future = Raise("pending")
    /\ llm = NotCalled
    /\ response = NoResponse

\* A request arrives and its handler runs up to its first await: lines 139-148,
\* 165-172, 188-196 and 229-246.
HandleRequest(endpoint, date_str) ==
    /\ pc = "idle"
    /\ LET query_date == fromisoformat(date_str)
           client     == get_oura_client(_oura_client, environ)
       IN  IF query_date.raised # Nothing
           THEN /\ request' = [endpoint |-> endpoint, date_str |-> date_str,
                               query_date |-> ""]
                /\ response' = HTTPException(400,
                                   RaiseMsg("ValueError", "Invalid date format. Use YYYY-MM-DD"))
                /\ pc' = "responded"
                /\ UNCHANGED <<_oura_client, constructions, fetch, ready>>
           ELSE /\ request' = [endpoint |-> endpoint, date_str |-> date_str,
                               query_date |-> query_date.value]
                /\ _oura_client' = client.singleton
                /\ constructions' = [constructions EXCEPT !.oura = Record(@, client)]
                /\ IF client.result.raised # Nothing
                   THEN /\ response' = HTTPException(
                                           ExceptionStatus(endpoint, client.result.raised),
                                           client.result)
                        /\ pc' = "responded"
                        /\ UNCHANGED <<fetch, ready>>
                   ELSE IF endpoint = "recommendations"
                   THEN /\ fetch' = [k \in Kinds |->
                               IF \E n \in 1..Len(gather) : gather[n] = k
                               THEN [NoFetch EXCEPT !.st = "scheduled"] ELSE NoFetch]
                        /\ ready' = gather
                        /\ pc' = "gathering"
                        /\ UNCHANGED response
                   ELSE /\ fetch' = [fetch EXCEPT ![endpoint].st = "awaiting"]
                        /\ pc' = "awaiting"
                        /\ UNCHANGED <<ready, response>>
    /\ UNCHANGED <<environ, _recovery_coach, gather_future, llm, coachVars>>

\* The provider answers a request that is in flight; the event loop queues the
\* coroutine that awaits it.
ProviderResponds(k, reply) ==
    /\ fetch[k].st = "awaiting"
    /\ fetch' = [fetch EXCEPT ![k].st = "ready", ![k].replies = Append(@, reply)]
    /\ ready' = Append(ready, k)
    /\ UNCHANGED <<environ, _oura_client, _recovery_coach, constructions, request, pc, gather_future,
                   llm, response, coachVars>>

\* The event loop runs the coroutine at the head of its queue up to its next
\* await or its end. A GET handler awaits the coroutine itself and answers when it
\* ends; the recommendation handler awaits the gather future.
RunReady ==
    /\ ready # <<>>
    /\ LET k   == Head(ready)
           out == Coroutine(k, request.query_date, fetch[k].replies)
       IN  /\ ready' = Tail(ready)
           /\ IF out.raised = "await"
              THEN /\ fetch' = [fetch EXCEPT ![k].st = "awaiting"]
                   /\ UNCHANGED <<gather_future, pc, response>>
              ELSE /\ fetch' = [fetch EXCEPT
                                  ![k].st = IF out.raised = Nothing THEN "done"
                                            ELSE "failed",
                                  ![k].result = out]
                   /\ IF request.endpoint = "recommendations"
                      THEN /\ gather_future' = gather_on_done(gather_future, fetch', k)
                           /\ UNCHANGED <<pc, response>>
                      ELSE /\ response' =
                                  IF out.raised = Nothing THEN Success(out.value)
                                  ELSE HTTPException(
                                           ExceptionStatus(request.endpoint, out.raised),
                                           out)
                           /\ pc' = "responded"
                           /\ UNCHANGED gather_future
    /\ UNCHANGED <<environ, _oura_client, _recovery_coach, constructions, request, llm,
                   coachVars>>

\* The gather future is settled and the recommendation handler runs on to its
\* end (lines 248-290); client.messages.create is a blocking call, so nothing
\* else runs in between.
ResumeHandler(completion) ==
    /\ pc = "gathering"
    /\ gather_future.raised # "pending"
    /\ pc' = "responded"
    /\ IF gather_future.raised # Nothing
       THEN /\ response' = HTTPException(
                               ExceptionStatus(request.endpoint, gather_future.raised),
                               gather_future)
            /\ UNCHANGED <<_recovery_coach, constructions, llm>>
       ELSE LET coach == get_recovery_coach(_recovery_coach, environ)
                data  == gather_future.value
                out   == analyze_recovery(data.sleep, data.readiness, data.activity,
                                          completion)
                asked == build_analysis_prompt(data.sleep, data.readiness,
                                               data.activity).raised = Nothing
            IN  /\ _recovery_coach' = coach.singleton
                /\ constructions' = [constructions EXCEPT !.coach = Record(@, coach)]
                /\ IF coach.result.raised # Nothing
                   THEN /\ response' = HTTPException(
                                           ExceptionStatus(request.endpoint,
                                                           coach.result.raised),
                                           coach.result)
                        /\ UNCHANGED llm
                   ELSE /\ llm' = IF asked THEN [called |-> TRUE, kind |-> completion.kind]
                                  ELSE llm
                        /\ response' =
                               IF out.raised = Nothing THEN Success(out.value)
                               ELSE HTTPException(
                                        ExceptionStatus(request.endpoint, out.raised), out)
    /\ UNCHANGED <<environ, _oura_client, request, fetch, ready, gather_future, coachVars>>

\* The response is out and no coroutine of the request is left: the next request.
NextRequest ==
    /\ pc = "responded"
    /\ ready = <<>>
    /\ \A k \in Kinds : fetch[k].st \in {"none", "done", "failed"}
    /\ request' = [endpoint |-> "none", date_str |-> "", query_date |-> ""]
    /\ pc' = "idle"
    /\ fetch' = [k \in Kinds |-> NoFetch]
    /\ gather_future' = Raise("pending")
    /\ llm' = NotCalled
    /\ response' = NoResponse
    /\ UNCHANGED <<environ, _oura_client, _recovery_coach, constructions, ready,
                   coachVars>>

\* While the request is suspended at an await the event loop runs the handler of
\* another request, which reaches its call of get_oura_client() (main.py lines
\* 145, 167, 190, 236) or of get_recovery_coach() (line 257). Neither getter holds
\* an await, so the call runs from its start to its end in one step.
ConcurrentGet(getter) ==
    /\ pc \in {"awaiting", "gathering"}
    /\ IF getter = "oura"
       THEN LET client == get_oura_client(_oura_client, environ) IN
            /\ _oura_client' = client.singleton
            /\ constructions' = [constructions EXCEPT !.oura = Record(@, client)]
            /\ UNCHANGED _recovery_coach
       ELSE LET coach == get_recovery_coach(_recovery_coach, environ) IN
            /\ _recovery_coach' = coach.singleton
            /\ constructions' = [constructions EXCEPT !.coach = Record(@, coach)]
            /\ UNCHANGED _oura_client
    /\ UNCHANGED <<environ, request, pc, fetch, ready, gather_future, llm, response,
                   coachVars>>

\* The replies the provider may give to the request the coroutine of kind k awaits.
RepliesAwaited(k) ==
    IF fetch[k].st = "awaiting"
    THEN ProviderReplies(Coroutine(k, request.query_date, fetch[k].replies).endpoint)
    ELSE {}

NoCall == [fn |-> "none"]

Init ==
    /\ InitApi
    /\ input = NoCall
    /\ output = Raise("pending")

Next ==
    \/ \E endpoint \in Endpoints, date_str \in DateStrings :
           HandleRequest(endpoint, date_str)
    \/ \E k \in Kinds : \E reply \in RepliesAwaited(k) :
           ProviderResponds(k, reply)
    \/ RunReady
    \/ \E completion \in Completions : ResumeHandler(completion)
    \/ NextRequest
    \/ \E getter \in Getters : ConcurrentGet(getter)

Spec == Init /\ [][Next]_vars

(***************************************************************************)
(* SpecCoach: one call of one of the coach's functions, its arguments      *)
(* drawn from the sets below.                                              *)
(***************************************************************************)
SleepOf(score, total, deep, rem, light) ==
    SleepData(Today, total, deep, rem, light, score, None, None).value

ReadinessOf(score, temperature, hrv) ==
    ReadinessData(Today, score, temperature, None, hrv, None, None, None, None).value

ActivityOf(steps) ==
    ActivityData(Today, 80, steps, 2200, 400, 500, None, None, None).value

TableCalls ==
    {[fn |-> "determine_recommendation_type",
      readiness_data |-> ReadinessOf(s, None, None)] : s \in 0..MaxScore}

FactorCalls ==
    {[fn |-> "generate_key_factors",
      sleep_data     |-> SleepOf(ss, 28800, 5400, 7200, 16200),
      readiness_data |-> ReadinessOf(rs, t, h),
      activity_data  |-> ActivityOf(st)] :
        ss \in {45, 69, 70, 84, 85, 90}, rs \in {45, 69, 70, 84, 85, 90},
        t \in {None, -6, -5, 0, 5, 6}, h \in {None, 0, 45, 59, 60},
        st \in {0, 3000, 4999, 5000}}

PromptCalls ==
    {[fn |-> "build_analysis_prompt",
      sleep_data     |-> SleepOf(90, total, deep, rem, light),
      readiness_data |-> ReadinessOf(45, None, None),
      activity_data  |-> ActivityOf(3000)] :
        total \in {0, 25200, 28800}, deep \in {0, 3600, 5400},
        rem \in {0, 7200}, light \in {0, 14400, 16200}}

ParseCalls ==
    {[fn |-> "parse_ai_response",
      intent         |-> i,
      response_text  |-> Render(i),
      target_date    |-> Today,
      sleep_data     |-> SleepOf(90, 28800, 5400, 7200, 16200),
      readiness_data |-> ReadinessOf(rs, None, None),
      activity_data  |-> ActivityOf(3000)] : i \in Intents, rs \in {45, 90}}

InitCoach ==
    /\ input \in TableCalls \cup FactorCalls \cup PromptCalls \cup ParseCalls
    /\ output = Raise("pending")
    /\ InitApi
    /\ environ = [OURA_ACCESS_TOKEN |-> TRUE, ANTHROPIC_API_KEY |-> TRUE]

CallDetermineType ==
    /\ output.raised = "pending"
    /\ input.fn = "determine_recommendation_type"
    /\ output' = Return(determine_recommendation_type(input.readiness_data))
    /\ UNCHANGED <<input, apiVars>>

CallGenerateKeyFactors ==
    /\ output.raised = "pending"
    /\ input.fn = "generate_key_factors"
    /\ output' = Return(generate_key_factors(input.sleep_data, input.readiness_data,
                                             input.activity_data))
    /\ UNCHANGED <<input, apiVars>>

CallBuildPrompt ==
    /\ output.raised = "pending"
    /\ input.fn = "build_analysis_prompt"
    /\ output' = build_analysis_prompt(input.sleep_data, input.readiness_data,
                                       input.activity_data)
    /\ UNCHANGED <<input, apiVars>>

CallParse ==
    /\ output.raised = "pending"
    /\ input.fn = "parse_ai_response"
    /\ output' = Return(parse_ai_response(input.response_text, input.target_date,
                            input.sleep_data, input.readiness_data, input.activity_data))
    /\ UNCHANGED <<input, apiVars>>

NextCoach ==
    \/ CallDetermineType
    \/ CallGenerateKeyFactors
    \/ CallBuildPrompt
    \/ CallParse

SpecCoach == InitCoach /\ [][NextCoach]_vars

(***************************************************************************)
(* Claims about the coach's functions (SpecCoach)                          *)
(***************************************************************************)
Returned(fn) == input.fn = fn /\ output.raised = Nothing

Finished(fn) == input.fn = fn /\ output.raised # "pending"

\* The reply is empty, or holds none of the five markers.
NoMarkerReply ==
    \A m \in Markers : ~TextContains(input.response_text, m)

\* C4 as amended: for a reply that is empty or holds none of the five markers the
\* parser returns (it does not raise) the defaults of the extraction rules:
\* recommendation_type moderate_activity, confidence 0.8, an empty message and the
\* synthesized key factors.
C4_NoMarkerReplyGivesDefaults ==
    (Finished("parse_ai_response") /\ NoMarkerReply) =>
        /\ output.raised = Nothing
        /\ output.value.recommendation_type = <<"moderate_activity">>
        /\ output.value.confidence = 800
        /\ output.value.message = <<>>
        /\ output.value.key_factors =
               generate_key_factors(input.sleep_data, input.readiness_data,
                                    input.activity_data)

C4_Witness ==
    /\ Returned("parse_ai_response")
    /\ NoMarkerReply
    /\ input.intent.layout = "chatty"
    /\ input.readiness_data.readiness_score = 90
    /\ output.value.confidence = 800

\* C4 as stated: for a reply that is empty or holds none of the five markers the
\* parser returns the readiness-threshold-table type and confidence 0.7.
C4_NoMarkerReplyGivesFallback ==
    (Finished("parse_ai_response") /\ NoMarkerReply) =>
        /\ output.raised = Nothing
        /\ output.value.recommendation_type =
               <<determine_recommendation_type(input.readiness_data)>>
        /\ output.value.confidence = 700

\* C5 as stated: for a SleepData whose total_sleep_duration is 0 the prompt
\* composition does not raise (and renders the three stage percentages as
\* "not applicable").
C5_PromptNeverRaisesOnZeroTotal ==
    (Finished("build_analysis_prompt") /\ input.sleep_data.total_sleep_duration = 0) =>
        /\ output.raised = Nothing
        /\ {output.value.deep_pct, output.value.rem_pct, output.value.light_pct}
               = {"not applicable"}

BoundaryTable ==
    [s \in {39, 40, 54, 55, 69, 70, 84, 85} |->
        CASE s = 39 -> "rest_day"
          [] s \in {40, 54} -> "light_recovery"
          [] s \in {55, 69} -> "moderate_activity"
          [] s \in {70, 84} -> "training_ready"
          [] s = 85 -> "peak_performance"]

\* C8: the readiness-threshold table maps s >= 85 to peak_performance, 70..84 to
\* training_ready, 55..69 to moderate_activity, 40..54 to light_recovery and
\* s < 40 to rest_day; 39,40,54,55,69,70,84,85 map as the boundary table says.
C8_ReadinessThresholdTable ==
    Returned("determine_recommendation_type") =>
        LET s == input.readiness_data.readiness_score
            t == output.value
        IN  /\ (s >= 85) = (t = "peak_performance")
            /\ (70 <= s /\ s < 85) = (t = "training_ready")
            /\ (55 <= s /\ s < 70) = (t = "moderate_activity")
            /\ (40 <= s /\ s < 55) = (t = "light_recovery")
            /\ (s < 40) = (t = "rest_day")
            /\ s \in DOMAIN BoundaryTable => t = BoundaryTable[s]

C8_Witness ==
    /\ Returned("determine_recommendation_type")
    /\ input.readiness_data.readiness_score = 85
    /\ output.value = "peak_performance"

\* The rule a factor text belongs to, in the order the rules are evaluated.
RuleOf(text) ==
    CASE text \in {"Excellent sleep quality", "Poor sleep quality"} -> 1
      [] text \in {"High readiness score", "Low readiness score"} -> 2
      [] text = "Elevated temperature deviation" -> 3
      [] text = "Low HRV balance" -> 4
      [] text = "Low activity yesterday" -> 5

Has(factors, text, value) ==
    \E k \in 1..Len(factors) : factors[k] = <<text, value>>

HasText(factors, text) ==
    \E k \in 1..Len(factors) : factors[k][1] = text

CleanText(t) ==
    t # <<>> /\ Head(t) \notin {"-", " "} /\ t[Len(t)] \notin {"-", " "}

\* The reply holds the five sections in the order of the prompt's template,
\* KEY_FACTORS with at least one bullet, CONFIDENCE a number.
WellFormedReply ==
    LET i == input.intent IN
    /\ i.sections = SectionNames
    /\ i.layout \in PlainLayouts
    /\ Len(i.factors) >= 1
    /\ \A k \in 1..Len(i.factors) : CleanText(i.factors[k])
    /\ \A k \in 1..Len(i.tips) : CleanText(i.tips[k])
    /\ i.confidence \in DOMAIN FloatLiterals

Responded == pc = "responded"

Recommending == request.endpoint = "recommendations"

Over(k) == fetch[k].st \in {"done", "failed"}

Started(k) == fetch[k].st \in {"awaiting", "ready", "done", "failed"}

\* C1 as stated: every request ends in a success body, in 400 exactly when the
\* date segment is no valid date, in 503 exactly when the provider or the
\* generative service reported an error, else in 500; on every endpoint alike.
C1_EndpointStatusCodes ==
    Responded =>
        /\ response.status \in {200, 400, 500, 503}
        /\ (response.status = 200) = (response.fault = Nothing)
        /\ (response.status = 400) = (fromisoformat(request.date_str).raised # Nothing)
        /\ (response.status = 503) = (response.fault \in {"OuraAPIError", "AICoachError"})

\* C2: in a recommendation request no fetch is over (returned or raised) while
\* another of the three has not yet started.
C2_FetchesStartedTogether ==
    Recommending =>
        \A k \in Kinds : Over(k) => \A j \in Kinds : Started(j)

C2_Witness ==
    /\ Recommending
    /\ fetch["activity"].st = "done"
    /\ fetch["sleep"].st = "awaiting"
    /\ Len(fetch["sleep"].replies) = 0
    /\ fetch["readiness"].st = "ready"

\* The three records were obtained and the generative-service call failed.
GenerativeCallFailed ==
    /\ Responded
    /\ Recommending
    /\ \A k \in Kinds : fetch[k].st = "done"
    /\ llm.called
    /\ llm.kind \in {"APIError", "no_content"}

\* C3 as amended: when the three records were obtained and the generative-service
\* call itself fails, analyze_recovery raises AICoachError and the endpoint
\* answers 503 with no Recommendation.
C3_GenerativeFailureIs503 ==
    GenerativeCallFailed =>
        /\ response.status = 503
        /\ response.fault = "AICoachError"
        /\ response.body = <<>>

C3_Witness ==
    /\ GenerativeCallFailed
    /\ llm.kind = "APIError"
    /\ response.status = 503

\* C3 as stated: when the three records were obtained and the generative-service
\* call itself fails, the endpoint still returns a Recommendation: the type of
\* the readiness-threshold table, confidence 0.7, the synthesized key factors.
C3_GenerativeFailureStillRecommends ==
    GenerativeCallFailed =>
        /\ response.status = 200
        /\ response.body[1].recommendation_type =
               <<determine_recommendation_type(gather_future.value.readiness)>>
        /\ response.body[1].confidence = 700
        /\ response.body[1].key_factors =
               generate_key_factors(gather_future.value.sleep,
                   gather_future.value.readiness, gather_future.value.activity)

\* C6: in a recommendation request the generative service is invoked only once
\* all three fetches have returned a record; when a fetch has failed the request
\* ends in the fault of a failed fetch (503 for a provider error) and the
\* generative service is not invoked.
C6_FanInBeforeGenerativeCall ==
    Recommending =>
        /\ llm.called => \A k \in Kinds : fetch[k].st = "done"
        /\ (\E k \in Kinds : fetch[k].st = "failed") => ~llm.called
        /\ (Responded /\ \E k \in Kinds : fetch[k].st = "failed") =>
               /\ response.body = <<>>
               /\ \E k \in Kinds :
                      /\ fetch[k].st = "failed"
                      /\ response.fault = fetch[k].result.raised
                      /\ response.msg = Str(fetch[k].result)
               /\ response.status =
                      IF response.fault = "OuraAPIError" THEN 503 ELSE 500

C6_Witness ==
    /\ Recommending
    /\ Responded
    /\ fetch["readiness"].st = "failed"
    /\ fetch["sleep"].st = "done"
    /\ fetch["activity"].st = "awaiting"
    /\ response.status = 503
    /\ ~llm.called

\* C7: a fetch whose provider calls all answered with zero records raises the
\* "No data available" OuraAPIError and returns no record; a fetch that met an
\* HTTP or network failure raises an OuraAPIError with another message.
C7_NoRecordsIsDataUnavailable ==
    \A k \in Kinds :
        Over(k) =>
            LET replies == fetch[k].replies
                result  == fetch[k].result
            IN  /\ (\A n \in 1..Len(replies) :
                        replies[n].kind = "ok" /\ replies[n].data = <<>>) =>
                       /\ fetch[k].st = "failed"
                       /\ result.raised = "OuraAPIError"
                       /\ result.msg = "No data available"
                /\ (\E n \in 1..Len(replies) : replies[n].kind # "ok") =>
                       /\ fetch[k].st = "failed"
                       /\ result.raised = "OuraAPIError"
                       /\ result.msg # "No data available"

C7_Witness ==
    /\ fetch["sleep"].st = "failed"
    /\ Len(fetch["sleep"].replies) = 2
    /\ \A n \in 1..2 : fetch["sleep"].replies[n].kind = "ok"
                       /\ fetch["sleep"].replies[n].data = <<>>
    /\ fetch["sleep"].result.msg = "No data available"
    /\ fetch["readiness"].st = "failed"
    /\ fetch["readiness"].replies[1].kind = "network"

(***************************************************************************)
(* Claims about the extraction rules of the parser (SpecCoach)             *)
(***************************************************************************)
\* The reply holds no KEY_FACTORS: marker, or the marker and no dash line.
NoFactorInReply ==
    "factors" \notin input.intent.sections \/ input.intent.factors = <<>>

\* The message and the tips the reply states, as the parser combines them.
StatedMessage(i) ==
    (IF "message" \in i.sections THEN JoinLines(i.message) ELSE <<>>)
    \o (IF "tips" \in i.sections /\ i.tips # <<>>
        THEN <<"\n", "\n", "Specific Tips:", "\n">>
             \o JoinLines([k \in 1..Len(i.tips) |-> <<"(bullet) ">> \o i.tips[k]])
        ELSE <<>>)

\* C11: for a reply from which no key factor is extracted (no KEY_FACTORS:
\* marker, or the marker followed by no dash line) the parser does not raise, the
\* key_factors are the synthesized factors of the three records (at most 5), and
\* the type, the confidence and the message are those the reply states.
C11_NoFactorInReplySynthesizes ==
    (Finished("parse_ai_response") /\ NoFactorInReply) =>
        LET i == input.intent
            r == output.value
        IN  /\ output.raised = Nothing
            /\ r.key_factors = generate_key_factors(input.sleep_data,
                                   input.readiness_data, input.activity_data)
            /\ Len(r.key_factors) <= 5
            /\ r.recommendation_type =
                   (IF "type" \in i.sections THEN <<i.rec_type>>
                    ELSE <<"moderate_activity">>)
            /\ r.confidence =
                   (IF "confidence" \in i.sections /\ i.confidence \in DOMAIN FloatLiterals
                    THEN FloatLiterals[i.confidence] ELSE 800)
            /\ (/\ i.layout \in PlainLayouts
                /\ "message" \in i.sections => {"tips", "confidence"} \cap i.sections # {})
                   => r.message = StatedMessage(i)

C11_Witness ==
    /\ Returned("parse_ai_response")
    /\ input.intent.sections = SectionNames
    /\ input.intent.factors = <<>>
    /\ input.intent.confidence = "0.85"
    /\ Len(input.intent.tips) = 2
    /\ Len(output.value.key_factors) = 3
    /\ output.value.confidence = 850

\* C12 as stated: every Recommendation the parser returns, whatever the reply,
\* has at most 5 key_factors, also when the KEY_FACTORS section of the reply
\* lists more than 5 dash lines.
C12_AtMostFiveKeyFactors ==
    Returned("parse_ai_response") => Len(output.value.key_factors) <= 5

\* C13 as stated: every Recommendation the parser returns has its confidence in
\* [0,1]: it is the number after CONFIDENCE: when that is a valid number, else
\* 0.8, and never outside 0..1 (not for CONFIDENCE: 85, not for a negative one).
C13_ConfidenceInUnitInterval ==
    Returned("parse_ai_response") =>
        LET i == input.intent
            c == output.value.confidence
        IN  /\ c = (IF "confidence" \in i.sections /\ i.confidence \in DOMAIN FloatLiterals
                    THEN FloatLiterals[i.confidence] ELSE 800)
            /\ 0 <= c
            /\ c <= 1000

\* The reply is in the rambling layout, with its five sections: each bulleted
\* section holds an aside (a line that is neither blank nor a dash line) after
\* its first bullet, and the bullets' texts have no dash or blank at their edges.
InterruptedReply ==
    LET i == input.intent IN
    /\ i.layout = "rambling"
    /\ i.sections = SectionNames
    /\ i.factors # <<>>
    /\ i.tips # <<>>
    /\ \A k \in 1..Len(i.factors) : CleanText(i.factors[k])
    /\ \A k \in 1..Len(i.tips) : CleanText(i.tips[k])

\* C15 as stated: in both bulleted sections the collection stops at the first
\* line after the marker that is neither blank nor a dash line: of a KEY_FACTORS
\* and of a SPECIFIC_TIPS section with an aside after the first bullet only the
\* first bullet is collected, no dash line after the aside.
C15_BulletSectionsStopAtOtherLine ==
    (Finished("parse_ai_response") /\ InterruptedReply) =>
        LET i == input.intent
            r == output.value
        IN  /\ output.raised = Nothing
            /\ r.key_factors = <<Head(i.factors)>>
            /\ r.message = StatedMessage([i EXCEPT !.tips = <<Head(i.tips)>>])

\* The lines from the MESSAGE: marker to the next of SPECIFIC_TIPS: and
\* CONFIDENCE:, or to the end of the text when neither follows.
MessageLines(i) ==
    IF {"tips", "confidence"} \cap i.sections = {} /\ i.layout = "chatty"
    THEN i.message \o << <<"b", "y", "e">> >>
    ELSE i.message

\* C16 as stated: for a reply that holds MESSAGE: the extracted message is the
\* trimmed text from just after the marker up to the next of SPECIFIC_TIPS: and
\* CONFIDENCE:, or up to the end of the text when neither follows, and then no
\* character of it is lost.
C16_MessageUpToNextMarkerOrEnd ==
    (/\ Finished("parse_ai_response")
     /\ "message" \in input.intent.sections
     /\ input.intent.layout \in PlainLayouts) =>
        /\ output.raised = Nothing
        /\ output.value.message =
               StatedMessage([input.intent EXCEPT !.message = MessageLines(input.intent)])

\* C17 as stated: the factor synthesis includes the low-HRV factor for a present
\* hrv_balance with 0 <= hrv_balance < 60 and not for a present one >= 60 or an
\* absent one; it includes the temperature factor iff temperature_deviation is
\* present and its absolute value exceeds 0.5.
C17_HrvAndTemperatureByPresence ==
    Returned("generate_key_factors") =>
        LET f == output.value
            t == input.readiness_data.temperature_deviation
            h == input.readiness_data.hrv_balance
        IN  /\ HasText(f, "Low HRV balance") = (h # None /\ 0 <= h /\ h < 60)
            /\ HasText(f, "Elevated temperature deviation") = (t # None /\ Abs(t) > 5)

(***************************************************************************)
(* Claims about the provider client's records and the singletons (Spec)    *)
(***************************************************************************)
\* The provider record a fetch that is done has read its n-th reply's data from.
RecordRead(k, n) == fetch[k].replies[n].data[1]

\* C14 as stated: in every record the gateway returns each field is the value of
\* the provider payload or absent (None): a provider record without
\* total_sleep_duration, a sleep-stage duration, steps or a calorie field never
\* yields a record that carries 0 for that field.
C14_NoSilentDefaults ==
    /\ fetch["sleep"].st = "done" =>
           \A f \in {"total_sleep_duration", "deep_sleep_duration",
                     "rem_sleep_duration", "light_sleep_duration"} :
               fetch["sleep"].result.value[f] = RecordRead("sleep", 1)[f]
    /\ fetch["activity"].st = "done" =>
           \A f \in {"steps", "total_calories", "active_calories", "target_calories"} :
               fetch["activity"].result.value[f] = RecordRead("activity", 1)[f]

\* The singleton a getter keeps.
Singleton(g) == IF g = "oura" THEN _oura_client ELSE _recovery_coach

\* The credential a getter's class reads at construction.
Credential(g) == IF g = "oura" THEN environ.OURA_ACCESS_TOKEN ELSE environ.ANTHROPIC_API_KEY

\* The next state's counterparts of the two above.
SingletonNext(g) == IF g = "oura" THEN _oura_client' ELSE _recovery_coach'

\* In this step getter g was called.
Called(g) == constructions'[g] # constructions[g] \/ SingletonNext(g) # Singleton(g)

\* C18: across the requests of one process and the getter calls of concurrent
\* handlers, each class is constructed at most once; once a getter has returned
\* an instance the singleton holds it and no later call changes it or
\* constructs another; a call whose construction fails (missing credential)
\* leaves the singleton unset, and a call that finds it unset constructs anew.
C18_SingletonsConstructedOnce ==
    /\ [](\A g \in Getters :
             /\ constructions[g].made <= 1
             /\ (Singleton(g) # Unset) = (constructions[g].made = 1)
             /\ constructions[g].last \in {"made", "reused"} => Singleton(g) # Unset
             /\ constructions[g].last = "failed" => Singleton(g) = Unset /\ ~Credential(g))
    /\ [][\A g \in Getters :
             /\ Singleton(g) # Unset =>
                    /\ SingletonNext(g) = Singleton(g)
                    /\ constructions'[g].made = constructions[g].made
                    /\ constructions'[g].last \in {constructions[g].last, "reused"}
             /\ (Singleton(g) = Unset /\ Called(g)) =>
                    constructions'[g].last = (IF Credential(g) THEN "made" ELSE "failed")
        ]_vars

C18_Witness ==
    /\ Responded
    /\ Recommending
    /\ response.status = 200
    /\ \A g \in Getters : constructions[g] = [made |-> 1, last |-> "reused"]

====
